---- MODULE Spec2Model ----
(***************************************************************************)
(* WebSerialCommunicator (src/src/Communicators/WebSerialCommunicator.ts). *)
(*                                                                         *)
(* The adapter owns a SerialPort, a TextEncoderStream with its writer and  *)
(* a TextDecoderStream with its reader.  The calls it makes into the host  *)
(* are modelled by what the WHATWG Streams standard and the WICG Web       *)
(* Serial API say they do:                                                 *)
(*   - SerialPort.readable / .writable are null unless the port is opened  *)
(*     and the side has not failed fatally;                                *)
(*   - reader.read() on a readable stream with an empty queue adds a       *)
(*     pending read request; requests are served first in, first out;      *)
(*   - reader.cancel() closes the stream, resolves every pending read      *)
(*     request with {done: true}, and errors the writable side of the      *)
(*     TextDecoderStream, so that a pipeTo() into it shuts down and its    *)
(*     promise rejects;                                                    *)
(*   - pipeTo() on a locked stream returns a rejected promise;             *)
(*   - an awaited rejected promise throws in the awaiting async function.  *)
(* The continuation of an await runs as a microtask: no timer tick and no  *)
(* caller operation runs while a settled read waits for its continuation.  *)
(***************************************************************************)
EXTENDS Integers, Sequences, FiniteSets, TLC

(* ---------------------------------------------------------------- bounds *)
MaxTicks == 3
MaxChunks == 2
MaxOpens == 2
MaxForgets == 1
MaxWrites == 2

(* ------------------------------------------------------------- constants *)
NULL == "null"
\* The text of the i-th chunk the transport delivers: each chunk differs from
\* the others, so that a delivery names the chunk it carries.
ChunkText == <<"OK", "AT", "RING", "ERROR", "+CMTI">>
Funcs == {"cb1", "cb2"}
\* The string passed to the i-th write(): each differs from the others.
WriteText == <<"ATZ", "ATI", "ATH", "ATA", "ATE0">>
Keys == {"baudRate", "dataBits", "stopBits", "parity"}
KeyOrder == <<"baudRate", "dataBits", "stopBits", "parity">>

VARIABLES
    \* transport (SerialPort)
    portState,              \* "closed" | "opening" | "opened"
    readFatal, writeFatal,  \* the side failed fatally: its getter returns null
    openedWith,             \* <<the options handed to the last open()>>, or <<>>
    forgetCalls,            \* calls of SerialPort.forget()
    \* adapter fields
    options,                \* the constructor's argument
    serialPortOptions,
    writableStreamClosed,   \* NULL | "pipe" (pending) | "fulfilled" | "rejected"
    readableStreamClosed,
    readInterval,           \* a timer handle, or 0 for null
    onResiveFunc,           \* NULL or a function
    \* streams
    decReadable,            \* textDecoder.readable: "readable"|"closed"|"errored"
    decWritable,            \* textDecoder.writable: "writable"|"errored"
    readerLocked,           \* this.reader still holds its lock
    rdQueue,                \* chunks the inbound pipe holds back until a read
                            \* asks for them (the decoder transforms on demand)
    pendingReads,           \* read requests issued and not settled
    settled,                \* settled reads whose continuation has not run
    writerState,            \* textEncoder.writable: "writable"|"closed"|"errored"
    encReadable,            \* textEncoder.readable: "readable"|"closed"
    inPipes, outPipes,      \* running pipeTo operations, per direction
    encQueue,               \* strings of write() calls that have not settled:
                            \* the encoder holds them until the outbound pipe
                            \* asks for them
    \* event loop
    timers,                 \* active setInterval handles
    timersStarted,
    pc,                     \* where the caller's connect/disconnect is suspended
    \* history
    lastOp,                 \* the operation the last step belonged to
    steps,                  \* teardown steps of the current/last disconnect
    calls,                  \* one entry per settled read: the callback invoked
                            \* (NULL: none was registered) and its argument
    arrived,                \* chunks that arrived on the decoded stream
    received,               \* number of chunks the transport has delivered
    ticks,
    written,                \* calls of write()
    sent,                   \* strings handed to the transport, in order
    rejectedWrites,         \* strings whose write() rejected, in order
    opens,                  \* calls of SerialPort.open()
    cleanSince              \* TRUE from a resolved open sequence until the next
                            \* disconnect() call or external close

portVars == <<portState, readFatal, writeFatal, openedWith, forgetCalls>>
fieldVars == <<options, serialPortOptions, writableStreamClosed,
               readableStreamClosed, readInterval, onResiveFunc>>
streamVars == <<decReadable, decWritable, readerLocked, rdQueue, pendingReads,
                settled, writerState, encReadable, inPipes, outPipes>>
loopVars == <<timers, timersStarted, pc>>
histVars == <<lastOp, steps, calls, arrived, received, ticks, opens, cleanSince>>
writeVars == <<encQueue, written, sent, rejectedWrites>>
vars == <<portVars, fieldVars, streamVars, loopVars, histVars, writeVars>>

(* ------------------------------------------------------------ constructor *)
\* No operation of the caller ended in the last step.
NoOp == [op |-> "none", outcome |-> "none", arg |-> "null"]

\* The defaults literal of the constructor.
Defaults ==
    [baudRate |-> 9600, dataBits |-> 8, stopBits |-> 1, parity |-> "none"]

\* A Partial<SerialOptions>: `has` is the set of own keys; a key that is not
\* an own key carries no value (pinned to a placeholder here).
PartialOptions ==
    {o \in [has : SUBSET Keys,
            baudRate : {9600, 115200},
            dataBits : {8, 7},
            stopBits : {1, 2},
            parity : {"none", "even"}] :
        \A k \in Keys \ o.has : o[k] = Defaults[k]}

NoOptions == CHOOSE o \in PartialOptions : o.has = {}

OwnKeys(source) == SelectSeq(KeyOrder, LAMBDA k : k \in source.has)

RECURSIVE CopyKeys(_, _, _)
CopyKeys(target, source, keys) ==
    IF keys = <<>> THEN target
    ELSE CopyKeys([target EXCEPT ![Head(keys)] = source[Head(keys)]],
                  source, Tail(keys))

\* A plausible slip: the arguments of Object.assign swapped, so defaults win.
ObjectAssignSwapped(target, source) ==
    [k \in Keys |-> target[k]]

\* Object.assign(target, source): every own key of source is copied onto
\* target, in order; the other keys of target are kept.
ObjectAssign(target, source) ==
    CopyKeys(target, source, OwnKeys(source))

\* State after `new WebSerialCommunicator(port, opts)` on a closed port.
Constructed(opts) ==
    /\ portState = "closed"
    /\ readFatal = FALSE
    /\ writeFatal = FALSE
    /\ openedWith = <<>>
    /\ forgetCalls = 0
    /\ options = opts
    /\ serialPortOptions = ObjectAssign(Defaults, opts)
    /\ writableStreamClosed = NULL
    /\ readableStreamClosed = NULL
    /\ readInterval = 0
    /\ onResiveFunc = NULL
    /\ decReadable = "readable"
    /\ decWritable = "writable"
    /\ readerLocked = TRUE
    /\ rdQueue = <<>>
    /\ pendingReads = 0
    /\ settled = <<>>
    /\ writerState = "writable"
    /\ encReadable = "readable"
    /\ inPipes = 0
    /\ outPipes = 0
    /\ timers = {}
    /\ timersStarted = 0
    /\ pc = "idle"
    /\ lastOp = NoOp
    /\ steps = <<>>
    /\ calls = <<>>
    /\ arrived = <<>>
    /\ received = 0
    /\ ticks = 0
    /\ opens = 0
    /\ cleanSince = FALSE
    /\ encQueue = <<>>
    /\ written = 0
    /\ sent = <<>>
    /\ rejectedWrites = <<>>

Init == Constructed(NoOptions)

(* ---------------------------------------------------------------- getters *)
\* SerialPort.readable: null unless the port is opened and reading has not
\* failed fatally.
PortReadable == IF portState = "opened" /\ ~readFatal THEN "stream" ELSE NULL

\* SerialPort.writable, likewise.
PortWritable == IF portState = "opened" /\ ~writeFatal THEN "stream" ELSE NULL

\* A plausible slip: only one of the two channels is looked at.
IsConnectedReadableOnly == PortReadable # NULL

isConnected == PortReadable # NULL /\ PortWritable # NULL

\* An operation of the caller starts only from the event loop, with no
\* microtask left to run and no connect/disconnect suspended.
CallerReady == pc = "idle" /\ settled = <<>>

Op(name, outcome) == [op |-> name, outcome |-> outcome, arg |-> NULL]
OpArg(name, outcome, arg) == [op |-> name, outcome |-> outcome, arg |-> arg]

(* ---------------------------------------------------------------- streams *)
\* source.pipeTo(dest): the promise it returns.  "pipe" is the pending
\* promise of a pipe that has started running.
PipeTo(srcState, srcLocked, dstState, dstLocked) ==
    IF srcLocked \/ dstLocked THEN "rejected"
    ELSE IF srcState = "errored" THEN "rejected"
    ELSE IF dstState = "errored" THEN "rejected"
    ELSE IF srcState = "closed" THEN "fulfilled"
    ELSE IF dstState = "closed" THEN "rejected"
    ELSE "pipe"

\* The state of a pipeTo promise held in a field once its pipe has ended.
Ended(promise, how) == IF promise = "pipe" THEN how ELSE promise

\* n read requests resolved with {value: undefined, done: true}.
DoneReads(n) == [i \in 1..n |-> [value |-> NULL, done |-> TRUE]]

(* ---------------------------------------------------------------- connect *)
\* connect() without its guard: the open sequence is run on every call.
connectUnguarded ==
    /\ CallerReady
    /\ opens < MaxOpens
    /\ opens' = opens + 1
    /\ openedWith' = <<serialPortOptions>>
    /\ pc' = IF portState = "closed" THEN "connect55" ELSE "connect55rejected"
    /\ portState' = IF portState = "closed" THEN "opening" ELSE portState
    /\ lastOp' = Op("connect", "pending")
    /\ UNCHANGED <<readFatal, writeFatal, forgetCalls, fieldVars, streamVars,
                   timers, timersStarted, steps, calls, arrived, received, ticks,
                   cleanSince>>
    /\ UNCHANGED writeVars

\* connect(), up to its await of serialPort.open(): returns at once when
\* connected, else calls open() with the merged options.  open() on a port
\* that is not closed rejects.
connect ==
    /\ CallerReady
    /\ IF isConnected
       THEN /\ lastOp' = Op("connect", "ok")
            /\ UNCHANGED <<portVars, fieldVars, streamVars, loopVars, steps,
                           calls, arrived, received, ticks, opens, cleanSince>>
       ELSE /\ opens < MaxOpens
            /\ opens' = opens + 1
            /\ openedWith' = <<serialPortOptions>>
            /\ pc' = IF portState = "closed" THEN "connect55"
                     ELSE "connect55rejected"
            /\ portState' = IF portState = "closed" THEN "opening" ELSE portState
            /\ lastOp' = Op("connect", "pending")
            /\ UNCHANGED <<readFatal, writeFatal, forgetCalls, fieldVars,
                           streamVars, timers, timersStarted, steps, calls,
                           arrived, received, ticks, cleanSince>>
    /\ UNCHANGED writeVars

\* A plausible slip: the failure of open() is caught and the poll timer is
\* started all the same.
connectResumeTimerOnFailure ==
    /\ pc \in {"connect55", "connect55rejected"}
    /\ settled = <<>>
    /\ \E openOk \in BOOLEAN :
        IF pc = "connect55rejected" \/ ~openOk
        THEN /\ portState' = IF pc = "connect55" THEN "closed" ELSE portState
             /\ pc' = "idle"
             /\ lastOp' = Op("connect", "rejected")
             /\ timersStarted' = timersStarted + 1
             /\ timers' = timers \cup {timersStarted + 1}
             /\ readInterval' = timersStarted + 1
             /\ UNCHANGED <<readFatal, writeFatal, openedWith, forgetCalls,
                            options, serialPortOptions, writableStreamClosed,
                            readableStreamClosed, onResiveFunc, streamVars,
                            steps, calls, arrived, received, ticks, opens,
                            cleanSince>>
        ELSE LET out == PipeTo(encReadable, outPipes > 0, "writable", FALSE)
                 in == PipeTo("readable", FALSE, decWritable, inPipes > 0)
                 handle == timersStarted + 1
             IN /\ portState' = "opened"
                /\ readFatal' = FALSE
                /\ writeFatal' = FALSE
                /\ writableStreamClosed' = out
                /\ outPipes' = IF out = "pipe" THEN outPipes + 1 ELSE outPipes
                /\ readableStreamClosed' = in
                /\ inPipes' = IF in = "pipe" THEN inPipes + 1 ELSE inPipes
                /\ timersStarted' = handle
                /\ timers' = timers \cup {handle}
                /\ readInterval' = handle
                /\ pc' = "idle"
                /\ lastOp' = Op("connect", "ok")
                /\ cleanSince' = TRUE
                /\ UNCHANGED <<openedWith, forgetCalls, options,
                               serialPortOptions, onResiveFunc, decReadable,
                               decWritable, readerLocked, rdQueue, pendingReads,
                               settled, writerState, encReadable, steps, calls,
                               arrived, received, ticks, opens>>
    /\ UNCHANGED writeVars

\* connect() after open() has settled.  A rejected open() is rethrown and
\* nothing is started; else the two pipes and the poll timer are started.
connectResume ==
    /\ pc \in {"connect55", "connect55rejected"}
    /\ settled = <<>>
    /\ \E openOk \in BOOLEAN :
        IF pc = "connect55rejected" \/ ~openOk
        THEN /\ portState' = IF pc = "connect55" THEN "closed" ELSE portState
             /\ pc' = "idle"
             /\ lastOp' = Op("connect", "rejected")
             /\ UNCHANGED <<readFatal, writeFatal, openedWith, forgetCalls,
                            fieldVars, streamVars, timers, timersStarted,
                            steps, calls, arrived, received, ticks, opens, cleanSince>>
        ELSE LET out == PipeTo(encReadable, outPipes > 0, "writable", FALSE)
                 in == PipeTo("readable", FALSE, decWritable, inPipes > 0)
                 handle == timersStarted + 1
             IN /\ portState' = "opened"
                /\ readFatal' = FALSE
                /\ writeFatal' = FALSE
                /\ writableStreamClosed' = out
                /\ outPipes' = IF out = "pipe" THEN outPipes + 1 ELSE outPipes
                /\ readableStreamClosed' = in
                /\ inPipes' = IF in = "pipe" THEN inPipes + 1 ELSE inPipes
                /\ timersStarted' = handle
                /\ timers' = timers \cup {handle}
                /\ readInterval' = handle
                /\ pc' = "idle"
                /\ lastOp' = Op("connect", "ok")
                /\ cleanSince' = TRUE
                /\ UNCHANGED <<openedWith, forgetCalls, options,
                               serialPortOptions, onResiveFunc, decReadable,
                               decWritable, readerLocked, rdQueue, pendingReads,
                               settled, writerState, encReadable, steps, calls,
                               arrived, received, ticks, opens>>
    /\ UNCHANGED writeVars

(* -------------------------------------------------------------- poll loop *)
\* A plausible slip: the catch block stops the timer (clearInterval) when the
\* read is rejected.
readDataStopsOnError(t) ==
    /\ t \in timers
    /\ settled = <<>>
    /\ ticks < MaxTicks
    /\ ticks' = ticks + 1
    /\ IF ~readerLocked \/ decReadable = "errored"
       THEN /\ lastOp' = Op("readData", "rejected")
            /\ timers' = timers \ {t}
            /\ UNCHANGED <<rdQueue, pendingReads, settled, arrived>>
       ELSE IF decReadable = "closed"
       THEN /\ lastOp' = NoOp
            /\ UNCHANGED timers
            /\ settled' = Append(settled, [value |-> NULL, done |-> TRUE])
            /\ UNCHANGED <<rdQueue, pendingReads, arrived>>
       ELSE IF rdQueue # <<>>
       THEN /\ lastOp' = NoOp
            /\ UNCHANGED timers
            /\ settled' = Append(settled, [value |-> Head(rdQueue), done |-> FALSE])
            /\ arrived' = Append(arrived, Head(rdQueue))
            /\ rdQueue' = Tail(rdQueue)
            /\ UNCHANGED pendingReads
       ELSE /\ lastOp' = NoOp
            /\ UNCHANGED timers
            /\ pendingReads' = pendingReads + 1
            /\ UNCHANGED <<rdQueue, settled, arrived>>
    /\ UNCHANGED <<portVars, fieldVars, decReadable, decWritable, readerLocked,
                   writerState, encReadable, inPipes, outPipes, timersStarted, pc,
                   steps, calls, received, opens, cleanSince>>
    /\ UNCHANGED writeVars

\* A variant that serves a read the chunk that arrived last, not first.
readDataNewestFirst(t) ==
    /\ t \in timers
    /\ settled = <<>>
    /\ ticks < MaxTicks
    /\ ticks' = ticks + 1
    /\ IF ~readerLocked \/ decReadable = "errored"
       THEN /\ lastOp' = Op("readData", "rejected")
            /\ UNCHANGED <<rdQueue, pendingReads, settled, arrived>>
       ELSE IF decReadable = "closed"
       THEN /\ lastOp' = NoOp
            /\ settled' = Append(settled, [value |-> NULL, done |-> TRUE])
            /\ UNCHANGED <<rdQueue, pendingReads, arrived>>
       ELSE IF rdQueue # <<>>
       THEN /\ lastOp' = NoOp
            /\ settled' = Append(settled, [value |-> rdQueue[Len(rdQueue)],
                                       done |-> FALSE])
            /\ arrived' = Append(arrived, rdQueue[Len(rdQueue)])
            /\ rdQueue' = SubSeq(rdQueue, 1, Len(rdQueue) - 1)
            /\ UNCHANGED pendingReads
       ELSE /\ lastOp' = NoOp
            /\ pendingReads' = pendingReads + 1
            /\ UNCHANGED <<rdQueue, settled, arrived>>
    /\ UNCHANGED <<portVars, fieldVars, decReadable, decWritable, readerLocked,
                   writerState, encReadable, inPipes, outPipes, loopVars,
                   steps, calls, received, opens, cleanSince>>
    /\ UNCHANGED writeVars

\* One firing of an interval timer: readData up to its await.  reader.read()
\* rejects when the lock was released or the stream is errored (the catch
\* block swallows it), resolves with done on a closed stream, resolves with
\* the next chunk when the pipe holds one back (the read's demand makes the
\* decoder transform it), and else stays pending.
readData(t) ==
    /\ t \in timers
    /\ settled = <<>>
    /\ ticks < MaxTicks
    /\ ticks' = ticks + 1
    /\ IF ~readerLocked \/ decReadable = "errored"
       THEN /\ lastOp' = Op("readData", "rejected")
            /\ UNCHANGED <<rdQueue, pendingReads, settled, arrived>>
       ELSE IF decReadable = "closed"
       THEN /\ lastOp' = NoOp
            /\ settled' = Append(settled, [value |-> NULL, done |-> TRUE])
            /\ UNCHANGED <<rdQueue, pendingReads, arrived>>
       ELSE IF rdQueue # <<>>
       THEN /\ lastOp' = NoOp
            /\ settled' = Append(settled, [value |-> Head(rdQueue), done |-> FALSE])
            /\ arrived' = Append(arrived, Head(rdQueue))
            /\ rdQueue' = Tail(rdQueue)
            /\ UNCHANGED pendingReads
       ELSE /\ lastOp' = NoOp
            /\ pendingReads' = pendingReads + 1
            /\ UNCHANGED <<rdQueue, settled, arrived>>
    /\ UNCHANGED <<portVars, fieldVars, decReadable, decWritable, readerLocked,
                   writerState, encReadable, inPipes, outPipes, loopVars,
                   steps, calls, received, opens, cleanSince>>
    /\ UNCHANGED writeVars

\* A plausible slip: `value && ''`, which is never the chunk.
OrEmptyAlways(value) == ""

\* value || ''
OrEmpty(value) == IF value = NULL THEN "" ELSE value

\* A plausible slip: readData keeps calling the callback that was registered
\* first, whatever was registered since.
readDataResumeStale ==
    /\ settled # <<>>
    /\ LET r == Head(settled)
       IN \E throws \in BOOLEAN :
            /\ throws => onResiveFunc # NULL
            /\ calls' = Append(calls, [func |-> IF onResiveFunc = NULL THEN NULL
                                                 ELSE "cb1",
                                        data |-> OrEmpty(r.value)])
            /\ readerLocked' = IF r.done /\ ~throws THEN FALSE ELSE readerLocked
            /\ settled' = Tail(settled)
            /\ lastOp' = IF throws THEN Op("readData", "threw") ELSE NoOp
    /\ UNCHANGED <<portVars, fieldVars, decReadable, decWritable, rdQueue,
                   pendingReads, writerState, encReadable, inPipes, outPipes,
                   loopVars, steps, arrived, received, ticks, opens, cleanSince>>
    /\ UNCHANGED writeVars

\* readData after its read has resolved: the callback registered now is
\* called with the chunk; on done the read lock is released.  A callback that
\* throws skips the rest of the try block.
readDataResume ==
    /\ settled # <<>>
    /\ LET r == Head(settled)
       IN \E throws \in BOOLEAN :
            /\ throws => onResiveFunc # NULL
            /\ calls' = Append(calls, [func |-> onResiveFunc,
                                        data |-> OrEmpty(r.value)])
            /\ readerLocked' = IF r.done /\ ~throws THEN FALSE ELSE readerLocked
            /\ settled' = Tail(settled)
            /\ lastOp' = IF throws THEN Op("readData", "threw") ELSE NoOp
    /\ UNCHANGED <<portVars, fieldVars, decReadable, decWritable, rdQueue,
                   pendingReads, writerState, encReadable, inPipes, outPipes,
                   loopVars, steps, arrived, received, ticks, opens, cleanSince>>
    /\ UNCHANGED writeVars

\* The transport delivers bytes to the inbound pipe.  With a read request
\* pending the decoder transforms them and the oldest request takes the
\* chunk; with none, the pipe holds them back.
Receive ==
    /\ settled = <<>>
    /\ inPipes > 0
    /\ PortReadable # NULL
    /\ decWritable = "writable"
    /\ received < MaxChunks
    /\ received' = received + 1
    /\ LET chunk == ChunkText[received + 1]
       IN IF pendingReads > 0
          THEN /\ pendingReads' = pendingReads - 1
               /\ settled' = Append(settled, [value |-> chunk, done |-> FALSE])
               /\ arrived' = Append(arrived, chunk)
               /\ UNCHANGED rdQueue
          ELSE /\ rdQueue' = Append(rdQueue, chunk)
               /\ UNCHANGED <<pendingReads, settled, arrived>>
    /\ lastOp' = NoOp
    /\ UNCHANGED <<portVars, fieldVars, decReadable, decWritable, readerLocked,
                   writerState, encReadable, inPipes, outPipes, loopVars,
                   steps, calls, ticks, opens, cleanSince>>
    /\ UNCHANGED writeVars

\* setOnResiveFunc(func)
setOnResiveFunc(func) ==
    /\ settled = <<>>
    /\ onResiveFunc' = func
    /\ lastOp' = OpArg("setOnResiveFunc", "ok", func)
    /\ UNCHANGED <<portVars, options, serialPortOptions, writableStreamClosed,
                   readableStreamClosed, readInterval, streamVars, loopVars,
                   steps, calls, arrived, received, ticks, opens, cleanSince>>
    /\ UNCHANGED writeVars

(* ------------------------------------------------------------------ write *)
\* write(data) up to its await: writer.write() rejects on a closed or errored
\* stream; else the encoder queues the string.  The caller is not held: it
\* may go on to call disconnect() before the write settles.
write ==
    /\ CallerReady
    /\ written < MaxWrites
    /\ written' = written + 1
    /\ LET data == WriteText[written + 1]
       IN IF writerState = "writable"
          THEN /\ encQueue' = Append(encQueue, data)
               /\ lastOp' = OpArg("write", "pending", data)
               /\ UNCHANGED rejectedWrites
          ELSE /\ rejectedWrites' = Append(rejectedWrites, data)
               /\ lastOp' = OpArg("write", "rejected", data)
               /\ UNCHANGED encQueue
    /\ UNCHANGED <<portVars, fieldVars, streamVars, loopVars, steps, calls,
                   arrived, received, ticks, opens, cleanSince, sent>>

\* The write() that waited longest settles: the running outbound pipe asks
\* for a chunk, the encoder transforms the oldest queued string and the pipe
\* hands its bytes to the transport.
writeResume ==
    /\ settled = <<>>
    /\ encQueue # <<>>
    /\ outPipes > 0
    /\ PortWritable # NULL
    /\ sent' = Append(sent, Head(encQueue))
    /\ encQueue' = Tail(encQueue)
    /\ lastOp' = NoOp
    /\ UNCHANGED <<portVars, fieldVars, streamVars, loopVars, steps, calls,
                   arrived, received, ticks, opens, cleanSince, written,
                   rejectedWrites>>

(* ------------------------------------------------------------- disconnect *)
\* A plausible slip: the teardown starts with writer.abort(), which rejects
\* the writes that have not settled.
InFlightWritesAborted ==
    /\ encQueue' = <<>>
    /\ rejectedWrites' = rejectedWrites \o encQueue

\* Up to its first await disconnect() makes no call on the writer: the
\* writes that have not settled stay queued.
InFlightWritesKept == UNCHANGED <<encQueue, rejectedWrites>>

\* The inbound pipe, if one runs, ends with an error: its promise rejects.
InboundPipeEnds ==
    /\ inPipes' = 0
    /\ readableStreamClosed' =
         IF inPipes > 0 THEN Ended(readableStreamClosed, "rejected")
         ELSE readableStreamClosed

\* The outbound pipe, if one runs, ends; `how` is how its promise settles.
OutboundPipeEnds(how) ==
    /\ outPipes' = 0
    /\ writableStreamClosed' =
         IF outPipes > 0 THEN Ended(writableStreamClosed, how)
         ELSE writableStreamClosed

\* clearInterval(this.readInterval); this.readInterval = null
ClearReadInterval ==
    /\ timers' = timers \ {readInterval}
    /\ readInterval' = 0

\* disconnect() without its guard.
disconnectUnguarded ==
    /\ CallerReady
    /\ cleanSince' = FALSE
    /\ ClearReadInterval
    /\ steps' = <<"clearInterval", "cancel">>
    /\ lastOp' = Op("disconnect", "pending")
    /\ pc' = "disconnect89"
    /\ decReadable' = "closed"
    /\ decWritable' = "errored"
    /\ rdQueue' = <<>>
    /\ settled' = settled \o DoneReads(pendingReads)
    /\ pendingReads' = 0
    /\ InboundPipeEnds
    /\ UNCHANGED <<portVars, options, serialPortOptions, writableStreamClosed,
                   onResiveFunc, readerLocked, writerState, encReadable,
                   outPipes, timersStarted, calls, arrived, received, ticks, opens>>
    /\ UNCHANGED <<written, sent>>
    /\ InFlightWritesKept

\* disconnect(), up to its await of reader.cancel(): returns at once when
\* not connected; else stops the poll timer and cancels the reader.
\* cancel() rejects when the lock was released or the stream is errored,
\* does nothing on a closed stream, and else closes the stream: the queue is
\* dropped, every pending read resolves with done, the decoder's writable
\* side is errored and the inbound pipe shuts down with that error.
disconnect ==
    /\ CallerReady
    /\ IF ~isConnected
       THEN /\ lastOp' = Op("disconnect", "ok")
            /\ steps' = <<>>
            /\ UNCHANGED <<portVars, fieldVars, streamVars, loopVars, calls,
                           arrived, received, ticks, opens, cleanSince>>
       ELSE /\ cleanSince' = FALSE
            /\ IF readInterval # 0
               THEN ClearReadInterval
               ELSE UNCHANGED <<timers, readInterval>>
            /\ steps' = (IF readInterval # 0 THEN <<"clearInterval">> ELSE <<>>)
                          \o <<"cancel">>
            /\ lastOp' = Op("disconnect", "pending")
            /\ IF ~readerLocked \/ decReadable = "errored"
               THEN /\ pc' = "disconnect89rejected"
                    /\ UNCHANGED <<decReadable, decWritable, rdQueue, settled,
                                   pendingReads, inPipes, readableStreamClosed>>
               ELSE IF decReadable = "closed"
               THEN /\ pc' = "disconnect89"
                    /\ UNCHANGED <<decReadable, decWritable, rdQueue, settled,
                                   pendingReads, inPipes, readableStreamClosed>>
               ELSE /\ pc' = "disconnect89"
                    /\ decReadable' = "closed"
                    /\ decWritable' = "errored"
                    /\ rdQueue' = <<>>
                    /\ settled' = settled \o DoneReads(pendingReads)
                    /\ pendingReads' = 0
                    /\ InboundPipeEnds
            /\ UNCHANGED <<portVars, options, serialPortOptions,
                           writableStreamClosed, onResiveFunc, readerLocked,
                           writerState, encReadable, outPipes, timersStarted,
                           calls, arrived, received, ticks, opens>>
    /\ UNCHANGED <<written, sent>>
    /\ InFlightWritesKept

\* disconnect() rethrows: the rest of the teardown is skipped.
DisconnectThrows ==
    /\ pc' = "idle"
    /\ lastOp' = Op("disconnect", "rejected")
    /\ UNCHANGED <<portVars, fieldVars, streamVars, timers, timersStarted,
                   steps, calls, arrived, received, ticks, opens, cleanSince>>

\* disconnect() from the settlement of the call it awaits to its next await
\* (or its end).  Awaiting a rejected promise throws; awaiting the pending
\* promise of a running pipe waits.
disconnectResume ==
    /\ settled = <<>>
    /\ pc \in {"disconnect89", "disconnect89rejected", "disconnect93",
               "disconnect93rejected", "disconnect97", "disconnect97rejected"}
    /\ IF pc \in {"disconnect89rejected", "disconnect93rejected",
                  "disconnect97rejected"}
       THEN DisconnectThrows
       ELSE IF pc = "disconnect89"
       THEN \* await this.readableStreamClosed; then writer.close()
            /\ readableStreamClosed # "pipe"
            /\ IF readableStreamClosed = "rejected"
               THEN DisconnectThrows
               ELSE /\ readableStreamClosed' = NULL
                    /\ steps' = steps \o <<"awaitReadable", "closeWriter">>
                    /\ lastOp' = Op("disconnect", "pending")
                    /\ IF writerState = "writable"
                       THEN \* close() takes effect after the queued writes
                            /\ encQueue = <<>>
                            /\ writerState' = "closed"
                            /\ encReadable' = "closed"
                            /\ OutboundPipeEnds("fulfilled")
                            /\ pc' = "disconnect93"
                       ELSE /\ pc' = "disconnect93rejected"
                            /\ UNCHANGED <<writerState, encReadable, outPipes,
                                           writableStreamClosed>>
                    /\ UNCHANGED <<portVars, options, serialPortOptions,
                                   readInterval, onResiveFunc, decReadable,
                                   decWritable, readerLocked, rdQueue,
                                   pendingReads, settled, inPipes, timers,
                                   timersStarted, calls, arrived, received, ticks, opens,
                                   cleanSince>>
       ELSE IF pc = "disconnect93"
       THEN \* await this.writableStreamClosed; then serialPort.close()
            /\ writableStreamClosed # "pipe"
            /\ IF writableStreamClosed = "rejected"
               THEN DisconnectThrows
               ELSE /\ writableStreamClosed' = NULL
                    /\ steps' = steps \o <<"awaitWritable", "closePort">>
                    /\ lastOp' = Op("disconnect", "pending")
                    /\ IF portState = "opened" /\ inPipes = 0 /\ outPipes = 0
                       THEN /\ portState' = "closed"
                            /\ readFatal' = FALSE
                            /\ writeFatal' = FALSE
                            /\ pc' = "disconnect97"
                       ELSE /\ pc' = "disconnect97rejected"
                            /\ UNCHANGED <<portState, readFatal, writeFatal>>
                    /\ UNCHANGED <<openedWith, forgetCalls, options,
                                   serialPortOptions, readableStreamClosed,
                                   readInterval, onResiveFunc, streamVars,
                                   timers, timersStarted, calls, arrived, received, ticks,
                                   opens, cleanSince>>
       ELSE \* serialPort.close() has resolved
            /\ pc' = "idle"
            /\ lastOp' = Op("disconnect", "ok")
            /\ UNCHANGED <<portVars, fieldVars, streamVars, timers,
                           timersStarted, steps, calls, arrived, received, ticks, opens,
                           cleanSince>>
    /\ UNCHANGED writeVars

(* -------------------------------------------------------------- transport *)
\* The port's readable stream errors: a running inbound pipe aborts the
\* decoder, whose readable side errors (queue dropped, pending reads
\* rejected into readData's catch block).
ReadableErrors ==
    /\ decWritable' = IF inPipes > 0 THEN "errored" ELSE decWritable
    /\ decReadable' = IF inPipes > 0 /\ decReadable = "readable"
                      THEN "errored" ELSE decReadable
    /\ rdQueue' = IF inPipes > 0 THEN <<>> ELSE rdQueue
    /\ pendingReads' = IF inPipes > 0 THEN 0 ELSE pendingReads
    /\ InboundPipeEnds

\* The port's writable stream errors: a running outbound pipe cancels the
\* encoder's readable side, which errors the writer's stream and rejects the
\* write() calls that have not settled.
WritableErrors ==
    /\ encReadable' = IF outPipes > 0 THEN "closed" ELSE encReadable
    /\ writerState' = IF outPipes > 0 /\ writerState = "writable"
                      THEN "errored" ELSE writerState
    /\ encQueue' = IF outPipes > 0 THEN <<>> ELSE encQueue
    /\ rejectedWrites' = IF outPipes > 0 THEN rejectedWrites \o encQueue
                         ELSE rejectedWrites
    /\ OutboundPipeEnds("rejected")

\* The device is lost while the port is open: the side that notices fails
\* fatally and its getter returns null from then on.
PortLost(side) ==
    /\ settled = <<>>
    /\ portState = "opened"
    /\ side \in {"read", "write", "both"}
    /\ side = "read" => ~readFatal
    /\ side = "write" => ~writeFatal
    /\ side = "both" => ~readFatal /\ ~writeFatal
    /\ IF side \in {"read", "both"}
       THEN readFatal' = TRUE /\ ReadableErrors
       ELSE UNCHANGED <<readFatal, decWritable, decReadable, rdQueue,
                        pendingReads, inPipes, readableStreamClosed>>
    /\ IF side \in {"write", "both"}
       THEN writeFatal' = TRUE /\ WritableErrors
       ELSE UNCHANGED <<writeFatal, encReadable, writerState, outPipes,
                        writableStreamClosed, encQueue, rejectedWrites>>
    /\ cleanSince' = FALSE
    /\ lastOp' = NoOp
    /\ UNCHANGED <<portState, openedWith, forgetCalls, options,
                   serialPortOptions, readInterval, onResiveFunc, readerLocked,
                   settled, loopVars, steps, calls, arrived, received, ticks, opens>>
    /\ UNCHANGED <<written, sent>>

\* The port is closed outside the adapter (the platform resets it, or another
\* owner of the handle closes it): both channels become null and the port
\* can be opened again.
PortClosedExternally ==
    /\ settled = <<>>
    /\ portState = "opened"
    /\ portState' = "closed"
    /\ readFatal' = FALSE
    /\ writeFatal' = FALSE
    /\ ReadableErrors
    /\ WritableErrors
    /\ cleanSince' = FALSE
    /\ lastOp' = NoOp
    /\ UNCHANGED <<openedWith, forgetCalls, options, serialPortOptions,
                   readInterval, onResiveFunc, readerLocked, settled, loopVars,
                   steps, calls, arrived, received, ticks, opens>>
    /\ UNCHANGED <<written, sent>>

(* ------------------------------------------------------- revokeConnection *)
Forget(hasForget) == IF hasForget THEN "forget" ELSE "noForget"

\* A plausible slip: forget() is called without the capability check.
revokeConnectionUnchecked(hasForget) ==
    /\ settled = <<>>
    /\ forgetCalls < MaxForgets
    /\ forgetCalls' = forgetCalls + 1
    /\ lastOp' = OpArg("revokeConnection", "ok", Forget(hasForget))
    /\ UNCHANGED <<portState, readFatal, writeFatal, openedWith, fieldVars,
                   streamVars, loopVars, steps, calls, arrived, received, ticks, opens,
                   cleanSince>>
    /\ UNCHANGED writeVars

\* revokeConnection() on a platform whose SerialPort.prototype has
\* (hasForget) or lacks a forget method.
revokeConnection(hasForget) ==
    /\ settled = <<>>
    /\ hasForget => forgetCalls < MaxForgets
    /\ IF ~hasForget
       THEN /\ lastOp' = OpArg("revokeConnection", "rejected", Forget(hasForget))
            /\ UNCHANGED forgetCalls
       ELSE /\ forgetCalls' = forgetCalls + 1
            /\ lastOp' = OpArg("revokeConnection", "ok", Forget(hasForget))
    /\ UNCHANGED <<portState, readFatal, writeFatal, openedWith, fieldVars,
                   streamVars, loopVars, steps, calls, arrived, received, ticks, opens,
                   cleanSince>>
    /\ UNCHANGED writeVars

(* ------------------------------------------------------------ listDevices *)
\* The global `navigator` of the environment: not declared at all, declared
\* but undefined, an object without a `serial` member, or one with it.
Navigators == {"undeclared", "undefined", "noSerial", "serial"}

\* What listDevices() settles with.  Evaluating the identifier `navigator`
\* where no such global is declared throws a ReferenceError; `!navigator` is
\* true for undefined; `'serial' in navigator` is false without the member.
ListDevicesResult(navigator) ==
    IF navigator = "undeclared" THEN "ReferenceError"
    ELSE IF navigator = "undefined" \/ navigator # "serial" THEN "empty"
    ELSE "ports"

\* static listDevices(): touches no adapter state.
listDevices(navigator) ==
    /\ settled = <<>>
    /\ lastOp' = OpArg("listDevices", ListDevicesResult(navigator), navigator)
    /\ UNCHANGED <<portVars, fieldVars, streamVars, loopVars, steps, calls,
                   arrived, received, ticks, opens, cleanSince>>
    /\ UNCHANGED writeVars

(* ----------------------------------------------------------- specification *)
\* The lifecycle, the poll loop and the transport's own events.
Next ==
    \/ connect
    \/ connectResume
    \/ disconnect
    \/ disconnectResume
    \/ \E t \in 1..MaxOpens : readData(t)
    \/ readDataResume
    \/ Receive
    \/ \E func \in Funcs : setOnResiveFunc(func)
    \/ \E side \in {"read", "write", "both"} : PortLost(side)
    \/ PortClosedExternally

Spec == Init /\ [][Next]_vars

\* The lifecycle together with the operations that only consult the platform.
NextPlatform ==
    \/ connect
    \/ connectResume
    \/ disconnect
    \/ disconnectResume
    \/ \E t \in 1..MaxOpens : readData(t)
    \/ readDataResume
    \/ Receive
    \/ \E func \in Funcs : setOnResiveFunc(func)
    \/ \E hasForget \in BOOLEAN : revokeConnection(hasForget)
    \/ \E navigator \in Navigators : listDevices(navigator)

SpecPlatform == Init /\ [][NextPlatform]_vars

\* Every partial configuration the constructor can be given.
InitOptions == \E opts \in PartialOptions : Constructed(opts)

NextOptions ==
    \/ connect
    \/ connectResume
    \/ disconnect
    \/ disconnectResume
    \/ PortClosedExternally

SpecOptions == InitOptions /\ [][NextOptions]_vars

\* The lifecycle, the poll loop, the caller's writes and the transport's
\* failures.
NextWrite ==
    \/ connect
    \/ connectResume
    \/ disconnect
    \/ disconnectResume
    \/ write
    \/ writeResume
    \/ \E t \in 1..MaxOpens : readData(t)
    \/ readDataResume
    \/ \E side \in {"read", "write", "both"} : PortLost(side)
    \/ PortClosedExternally

SpecWrite == Init /\ [][NextWrite]_vars

(* ------------------------------------------------------------------ claims *)
\* Both channels of the transport are non-null.
BothChannels == PortReadable # NULL /\ PortWritable # NULL

\* C1: in the state right after a connect() that resolved, both channels of
\* the transport are non-null; right after a disconnect() that resolved, they
\* are not both non-null; and isConnected is, in every state, exactly "both
\* channels are non-null".
C1_IsConnectedAfterConnectAndDisconnect ==
    /\ isConnected <=> BothChannels
    /\ lastOp = Op("connect", "ok") => BothChannels
    /\ lastOp = Op("disconnect", "ok") => ~BothChannels

C1_Witness ==
    /\ lastOp = Op("connect", "ok")
    /\ opens = 1
    /\ readInterval \in timers
    /\ isConnected

\* C2: a connect() called while the open sequence of an earlier connect()
\* stands (no disconnect() call and no external close since) resolves and
\* changes nothing: no open(), no pipe, no timer.
C2_SecondConnectIsNoOp ==
    [][(cleanSince /\ CallerReady /\ lastOp'.op = "connect")
        => /\ lastOp' = Op("connect", "ok")
           /\ opens' = opens
           /\ UNCHANGED <<portVars, fieldVars, streamVars, loopVars>>]_vars

\* A connect() has resolved after a poll tick although open() was called once.
C2_Witness ==
    /\ lastOp = Op("connect", "ok")
    /\ cleanSince
    /\ opens = 1
    /\ ticks > 0

\* C3: a disconnect() called while the channels are not both non-null
\* resolves and changes no adapter field, no stream and no transport state.
C3_DisconnectWhenNotConnectedIsNoOp ==
    [][(CallerReady /\ ~BothChannels /\ lastOp'.op = "disconnect")
        => /\ lastOp' = Op("disconnect", "ok")
           /\ UNCHANGED <<portVars, fieldVars, streamVars, loopVars>>]_vars

\* disconnect() has resolved on an adapter that never called open().
C3_Witness ==
    /\ lastOp = Op("disconnect", "ok")
    /\ opens = 0
    /\ readerLocked
    /\ writerState = "writable"

\* C4: at most one poll timer and at most one outbound pipe are active.
C4_AtMostOneReadLoopAndWritePipe ==
    /\ Cardinality(timers) <= 1
    /\ outPipes <= 1

Data(log) == [i \in 1..Len(log) |-> log[i].data]
Values(reads) == [i \in 1..Len(reads) |-> reads[i].value]

\* C5: the chunks that arrived on the decoded stream are, in order and each
\* once, the non-empty arguments of the callback invocations made so far
\* followed by the chunks of the settled reads whose continuation has yet to
\* run; and once a callback is registered, every later settled read invokes
\* a callback.
C5_EveryChunkDeliveredExactlyOnce ==
    /\ SelectSeq(Data(calls), LAMBDA d : d # "")
         \o SelectSeq(Values(settled), LAMBDA v : v # NULL) = arrived
    /\ \A i \in 1..Len(calls) : \A j \in i..Len(calls) :
         calls[i].func # NULL => calls[j].func # NULL

\* Two chunks arrived, with several reads pending before the first, and each
\* was passed once to the registered callback.
C5_Witness ==
    /\ ticks = MaxTicks
    /\ arrived = <<ChunkText[1], ChunkText[2]>>
    /\ calls = <<[func |-> "cb1", data |-> ChunkText[1]],
                 [func |-> "cb1", data |-> ChunkText[2]]>>

TeardownOrder ==
    <<"clearInterval", "cancel", "awaitReadable", "closeWriter",
      "awaitWritable", "closePort">>

\* C6: a disconnect() of a connected adapter that has ended has run the
\* whole teardown, in order: timer stopped (when one was set), reader
\* cancelled, inbound pipe awaited, writer closed, outbound pipe awaited,
\* transport closed.
C6_DisconnectRunsTeardownInOrder ==
    (lastOp.op = "disconnect" /\ lastOp.outcome # "pending" /\ steps # <<>>)
        => steps \in {TeardownOrder, Tail(TeardownOrder)}

\* C7: revokeConnection() rejects and leaves forget() uncalled where the
\* platform has no forget; else it resolves after exactly one forget().
\* It changes no adapter field, no stream, no timer.
C7_RevokeConnection ==
    [][lastOp'.op = "revokeConnection"
        => /\ lastOp'.arg = "noForget"
                => lastOp'.outcome = "rejected" /\ forgetCalls' = forgetCalls
           /\ lastOp'.arg = "forget"
                => lastOp'.outcome = "ok" /\ forgetCalls' = forgetCalls + 1
           /\ UNCHANGED <<fieldVars, streamVars, loopVars>>]_vars

\* Both outcomes are seen on an adapter whose poll timer runs.
C7_Witness ==
    /\ lastOp = OpArg("revokeConnection", "rejected", "noForget")
    /\ forgetCalls = 1
    /\ timers # {}

\* C8: the configuration handed to open() is the defaults with exactly the
\* supplied fields replaced by the supplied values.
C8_EffectiveConfiguration ==
    openedWith # <<>> =>
        \A k \in Keys :
            openedWith[1][k] = IF k \in options.has THEN options[k]
                               ELSE Defaults[k]

C8_Witness ==
    /\ openedWith # <<>>
    /\ options.has = {"baudRate"}
    /\ options.baudRate = 115200
    /\ openedWith[1] = [baudRate |-> 115200, dataBits |-> 8, stopBits |-> 1,
                        parity |-> "none"]

\* C9: listDevices() resolves with an empty list wherever the serial
\* capability is absent, and with the platform's ports where it is present.
C9_ListDevices ==
    lastOp.op = "listDevices" =>
        lastOp.outcome = IF lastOp.arg = "serial" THEN "ports" ELSE "empty"

\* C10: while connected, at most one read request is issued and not settled.
C10_OneOutstandingRead ==
    isConnected => pendingReads <= 1

\* C11: a disconnect() of a connected adapter that has ended has resolved,
\* with the transport closed and isConnected false.
C11_DisconnectResolvesClosed ==
    (lastOp.op = "disconnect" /\ lastOp.outcome # "pending" /\ steps # <<>>)
        => /\ lastOp.outcome = "ok"
           /\ portState = "closed"
           /\ ~isConnected

IsPrefix(p, q) == Len(p) <= Len(q) /\ SubSeq(q, 1, Len(p)) = p

\* The strings passed to write() so far, in call order.
Written == SubSeq(WriteText, 1, written)

\* C12: disconnect() does not interrupt a write() issued before it: no step
\* of disconnect() rejects or drops a write that has not settled; the strings
\* written are, in call order and each once, those handed to the transport,
\* then those still queued, then those rejected; and when disconnect() closes
\* the transport no write is still queued.
C12_DisconnectKeepsIssuedWrites ==
    /\ [](sent \o encQueue \o rejectedWrites = Written)
    /\ []((\E i \in 1..Len(steps) : steps[i] = "closePort") => encQueue = <<>>)
    /\ [][lastOp'.op = "disconnect"
            => /\ rejectedWrites' = rejectedWrites
               /\ encQueue' = encQueue
               /\ sent' = sent]_vars

\* disconnect() has cancelled the reader while the first string written was
\* handed to the transport and the second is still queued.
C12_Witness ==
    /\ pc = "disconnect89"
    /\ sent = <<WriteText[1]>>
    /\ encQueue = <<WriteText[2]>>

C14_PollFailureIsSwallowed ==
    [][(lastOp'.op = "readData")
        => /\ lastOp'.outcome \in {"rejected", "threw"}
           /\ UNCHANGED <<pc, timers, timersStarted, readInterval, portVars>>
           /\ lastOp'.outcome = "rejected"
                => UNCHANGED <<calls, streamVars>>
           /\ lastOp'.outcome = "threw"
                => /\ Len(calls') = Len(calls) + 1
                   /\ UNCHANGED readerLocked]_vars

\* The last of several ticks of a running timer found the read lock
\* released, and its read was rejected.
C14_Witness ==
    /\ lastOp = Op("readData", "rejected")
    /\ ticks = MaxTicks
    /\ timers # {}
    /\ ~readerLocked

\* A callback has thrown while the timer runs and further reads are pending.
C14_WitnessThrew ==
    /\ lastOp = Op("readData", "threw")
    /\ timers # {}
    /\ pendingReads > 0

\* C15: the continuation of a read that resolved with done invokes the
\* callback registered then once, with the empty string, and leaves the read
\* lock released; a released lock is never taken again; and a tick that
\* fires after the release invokes no callback.
C15_EndOfStreamReleasesLock ==
    /\ [][(settled # <<>> /\ Head(settled).done /\ settled' = Tail(settled))
           => /\ calls' = Append(calls, [func |-> onResiveFunc, data |-> ""])
              /\ ~readerLocked']_vars
    /\ [][~readerLocked => ~readerLocked']_vars
    /\ [][(~readerLocked /\ ticks' = ticks + 1)
           => UNCHANGED <<calls, settled, pendingReads>>]_vars

\* C16: in the state right after a disconnect() that resolved, no poll timer
\* is active and readInterval is null, so that no tick can issue a read.
C16_NoTimerAfterDisconnect ==
    lastOp = Op("disconnect", "ok") => timers = {} /\ readInterval = 0

\* The entries of the log that are invocations of a registered callback.
Invocations(log) == SelectSeq(log, LAMBDA e : e.func # NULL)

\* C17: once disconnect() has cancelled the reader (the decoded stream is
\* closed), no step invokes the callback.
C17_NoCallbackAfterCancel ==
    [][decReadable = "closed"
        => Invocations(calls') = Invocations(calls)]_vars

C19_CallbackLookedUpAtSettle ==
    /\ [][lastOp'.op = "setOnResiveFunc" => onResiveFunc' = lastOp'.arg]_vars
    /\ [][calls' # calls
           => /\ Len(calls') = Len(calls) + 1
              /\ SubSeq(calls', 1, Len(calls)) = calls
              /\ calls'[Len(calls')].func = onResiveFunc]_vars
    /\ [](\A i \in 1..Len(calls) : \A j \in 1..Len(calls) :
            (i # j /\ calls[i].data # "") => calls[i].data # calls[j].data)

\* Two reads were pending before any callback was registered; the first
\* chunk went to cb1 and, after cb2 replaced it, the second went to cb2.
C19_Witness ==
    /\ calls = <<[func |-> "cb1", data |-> ChunkText[1]],
                 [func |-> "cb2", data |-> ChunkText[2]]>>
    /\ ticks = 2
    /\ onResiveFunc = "cb2"

\* A chunk was consumed while no callback was registered, and the callback
\* registered afterwards was given the next chunk only.
C19_WitnessUnregistered ==
    calls = <<[func |-> NULL, data |-> ChunkText[1]],
              [func |-> "cb1", data |-> ChunkText[2]]>>

\* The chunks passed to a callback or consumed without one, in call order.
Delivered == SelectSeq(Data(calls), LAMBDA d : d # "")

\* C20: the chunks delivered so far are, in order, the first chunks the
\* transport delivered: none overtakes another, whatever the number of reads
\* pending when they arrive.
C20_DeliveredInArrivalOrder ==
    /\ IsPrefix(Delivered, arrived)
    /\ IsPrefix(arrived, SubSeq(ChunkText, 1, received))

\* Three reads were issued; two chunks were delivered, in the order of their
\* arrival, and the third read is still pending.
C20_Witness ==
    /\ Delivered = <<ChunkText[1], ChunkText[2]>>
    /\ ticks = MaxTicks
    /\ pendingReads = 1
    /\ onResiveFunc # NULL

====
